---- MODULE Spec2Model ----
(***************************************************************************)
(* Model of interactive_llm_chat.py: model discovery and selection, the    *)
(* acquisition and teardown of the device and model handles in main(), and *)
(* the command loop of interactive_chat().                                 *)
(*                                                                         *)
(* Text is a sequence of one-character strings, so that strip(), lower(),  *)
(* startswith(), slicing and split() are computed character by character.  *)
(***************************************************************************)
EXTENDS Integers, Sequences, FiniteSets, TLC

(***************************************************************************)
(* str methods used by the program                                         *)
(***************************************************************************)
UpperLetters ==
    << "A","B","C","D","E","F","G","H","I","J","K","L","M",
       "N","O","P","Q","R","S","T","U","V","W","X","Y","Z" >>

LowerLetters ==
    << "a","b","c","d","e","f","g","h","i","j","k","l","m",
       "n","o","p","q","r","s","t","u","v","w","x","y","z" >>

Digits == << "0","1","2","3","4","5","6","7","8","9" >>

\* The characters of the model in code point order.
CodePoints ==
    << "\t", " ", "'", "+", "-", ".", "/" >> \o Digits \o UpperLetters
        \o << "[", "_" >> \o LowerLetters \o << "{" >>

ord(c) == CHOOSE i \in 1..Len(CodePoints) : CodePoints[i] = c

isspace(c) == c \in {" ", "\t"}

lower_char(c) ==
    IF \E i \in 1..Len(UpperLetters) : UpperLetters[i] = c
    THEN LowerLetters[CHOOSE i \in 1..Len(UpperLetters) : UpperLetters[i] = c]
    ELSE c

\* str.lower()
lower(s) == [i \in 1..Len(s) |-> lower_char(s[i])]

RECURSIVE lstrip(_)
lstrip(s) == IF s # <<>> /\ isspace(Head(s)) THEN lstrip(Tail(s)) ELSE s

RECURSIVE rstrip(_)
rstrip(s) ==
    IF s # <<>> /\ isspace(s[Len(s)]) THEN rstrip(SubSeq(s, 1, Len(s) - 1)) ELSE s

\* str.strip()
strip(s) == rstrip(lstrip(s))

\* str.startswith(p)
startswith(s, p) == Len(s) >= Len(p) /\ SubSeq(s, 1, Len(p)) = p

\* str.endswith(p)
endswith(s, p) == Len(s) >= Len(p) /\ SubSeq(s, Len(s) - Len(p) + 1, Len(s)) = p

\* s[n:]
slice_from(s, n) == SubSeq(s, n + 1, Len(s))

\* The 1-based positions at which m occurs in s.
occurrences(s, m) ==
    { i \in 1..(Len(s) - Len(m) + 1) : SubSeq(s, i, i + Len(m) - 1) = m }

\* m in s
contains(s, m) == occurrences(s, m) # {}

\* s.split(m)[0]: the text before the first occurrence of m, all of s without one.
split_first(s, m) ==
    IF occurrences(s, m) = {} THEN s
    ELSE LET i == CHOOSE j \in occurrences(s, m) :
                      \A k \in occurrences(s, m) : j <= k
         IN  SubSeq(s, 1, i - 1)

\* a < b for str
RECURSIVE str_less(_, _)
str_less(a, b) ==
    IF b = <<>> THEN FALSE
    ELSE IF a = <<>> THEN TRUE
    ELSE IF Head(a) # Head(b) THEN ord(Head(a)) < ord(Head(b))
    ELSE str_less(Tail(a), Tail(b))

(***************************************************************************)
(* pathlib                                                                 *)
(***************************************************************************)
HAILO_FILE_EXTENSION == << ".", "h", "e", "f" >>

\* Path(s): the empty string is the current directory.
Path(s) == IF s = <<>> THEN << "." >> ELSE s

\* Path.stem: the name without its last suffix; a leading or trailing dot
\* starts no suffix.
stem(name) ==
    LET dots == { i \in 2..(Len(name) - 1) : name[i] = "." }
    IN  IF dots = {} THEN name
        ELSE SubSeq(name, 1, (CHOOSE i \in dots : \A j \in dots : j <= i) - 1)

(***************************************************************************)
(* get_downloaded_llm_models                                               *)
(***************************************************************************)
llm_patterns ==
    { << "q","w","e","n" >>, << "l","l","a","m","a" >>,
      << "m","i","s","t","r","a","l" >>, << "g","e","m","m","a" >>,
      << "p","h","i" >>, << "i","n","s","t","r","u","c","t" >>,
      << "c","h","a","t" >>, << "c","o","d","e","r" >> }

\* any(pattern in name_lower for pattern in llm_patterns)
looks_like_llm(hef_file) ==
    \E pattern \in llm_patterns : contains(lower(stem(hef_file)), pattern)

\* models_dir.glob("*.hef")
glob_hef(files) == { f \in files : endswith(f, HAILO_FILE_EXTENSION) }

\* Mutant of insert_sorted: the key is the stem as written.
RECURSIVE insert_sorted_case_sensitive(_, _)
insert_sorted_case_sensitive(l, x) ==
    IF l = <<>> THEN << x >>
    ELSE IF str_less(stem(x), stem(Head(l)))
         THEN << x >> \o l
         ELSE << Head(l) >> \o insert_sorted_case_sensitive(Tail(l), x)

\* sorted(): a stable insertion of x into the sorted list l by key.
RECURSIVE insert_sorted(_, _)
insert_sorted(l, x) ==
    IF l = <<>> THEN << x >>
    ELSE IF str_less(lower(stem(x)), lower(stem(Head(l))))
         THEN << x >> \o l
         ELSE << Head(l) >> \o insert_sorted(Tail(l), x)

RECURSIVE sorted_by_stem(_)
sorted_by_stem(l) ==
    IF l = <<>> THEN <<>>
    ELSE insert_sorted(sorted_by_stem(SubSeq(l, 1, Len(l) - 1)), l[Len(l)])

\* The sequences that list every element of the set S once.
RECURSIVE orderings(_)
orderings(S) ==
    IF S = {} THEN { <<>> }
    ELSE UNION { { << x >> \o o : o \in orderings(S \ {x}) } : x \in S }

\* The lists the function can return for a models directory: dir.exists says
\* whether the directory exists, dir.files are its file names; glob yields
\* them in any order.
get_downloaded_llm_models(dir) ==
    IF ~dir.exists THEN { <<>> }
    ELSE { sorted_by_stem(o) :
             o \in orderings({ f \in glob_hef(dir.files) : looks_like_llm(f) }) }

(***************************************************************************)
(* int(choice) of select_model                                             *)
(***************************************************************************)
is_digit(c) == \E i \in 1..Len(Digits) : Digits[i] = c

digit_value(c) == (CHOOSE i \in 1..Len(Digits) : Digits[i] = c) - 1

RECURSIVE digits_value(_)
digits_value(s) ==
    IF s = <<>> THEN 0
    ELSE 10 * digits_value(SubSeq(s, 1, Len(s) - 1)) + digit_value(s[Len(s)])

\* int(s) raises ValueError unless s is an optional sign and decimal digits.
int_raises(s) ==
    LET body == IF s # <<>> /\ Head(s) \in {"+", "-"} THEN Tail(s) ELSE s
    IN  body = <<>> \/ \E i \in 1..Len(body) : ~is_digit(body[i])

int(s) ==
    IF s # <<>> /\ Head(s) = "-" THEN 0 - digits_value(Tail(s))
    ELSE IF s # <<>> /\ Head(s) = "+" THEN digits_value(Tail(s))
    ELSE digits_value(s)

(***************************************************************************)
(* Bound of the model                                                      *)
(***************************************************************************)
\* The number of input lines the chat loop reads before the line that ends it.
MaxInputs == 2

(***************************************************************************)
(* Literals of the program                                                 *)
(***************************************************************************)
QUIT_COMMANDS == { << "/","q","u","i","t" >>, << "/","e","x","i","t" >> }

CLEAR_COMMAND == << "/","c","l","e","a","r" >>

SYSTEM_PREFIX == << "/","s","y","s","t","e","m"," " >>

\* The marker of the metadata that trails a response: ". [{'type'"
METADATA_MARKER == << "."," ","[","{","'","t","y","p","e","'" >>

QUIT_TOKEN == << "q" >>

(***************************************************************************)
(* The inputs the model draws from                                         *)
(***************************************************************************)
NoArg == [given |-> FALSE, value |-> <<>>]

Arg(text) == [given |-> TRUE, value |-> text]

\* --hef-path: absent, empty, an existing file, a name that exists only with
\* the extension appended, a name that exists in neither form.
HefPathArgs ==
    { NoArg, Arg(<<>>), Arg(<< "m",".","h","e","f" >>), Arg(<< "n" >>), Arg(<< "z" >>) }

\* --system-prompt
SystemPromptArgs == { << "B","e"," ","k","i","n","d" >> }

Qwen == << "Q","w","e","n",".","h","e","f" >>

Llama == << "l","l","a","m","a",".","h","e","f" >>

Yolo == << "y","o","l","o",".","h","e","f" >>

PhiTxt == << "p","h","i",".","t","x","t" >>

\* The file systems: the paths that exist, and the models directory.
FileSystems ==
    { [paths |-> { << "." >> },
       dir   |-> [exists |-> FALSE, files |-> {}]],
      [paths |-> { << "." >>, << "m",".","h","e","f" >> },
       dir   |-> [exists |-> TRUE, files |-> { Yolo, PhiTxt }]],
      [paths |-> { << "." >>, << "n",".","h","e","f" >> },
       dir   |-> [exists |-> TRUE, files |-> { Qwen, Yolo }]],
      [paths |-> { << "." >> },
       dir   |-> [exists |-> TRUE, files |-> { Qwen, Llama, PhiTxt }]] }

\* The lines typed at the menu of select_model.
Choices ==
    { << "q" >>, << " ","Q" >>, << "1" >>, << " ","2"," " >>, << "3" >>,
      << "0" >>, << "-","1" >>, << "x" >>, <<>> }

\* The lines typed at the prompt of the chat loop.
Lines ==
    { <<>>,
      << " "," " >>,
      << "/","q","u","i","t" >>,
      << " ","/","E","X","I","T" >>,
      << "/","c","l","e","a","r" >>,
      << "/","C","l","e","a","r"," " >>,
      << "/","s","y","s","t","e","m" >>,
      << "/","S","y","s","t","e","m"," "," " >>,
      << "/","S","Y","S","T","E","M"," "," ","B","e" >>,
      << " ","h","e","l","l","o"," " >> }

\* The texts generate_all returns: "hi there", and "a" followed by the
\* metadata marker twice.
Responses ==
    { << "h","i"," ","t","h","e","r","e" >>,
      << "a" >> \o METADATA_MARKER \o << "b" >> \o METADATA_MARKER }

(***************************************************************************)
(* State                                                                   *)
(***************************************************************************)
VARIABLES
    pc,             \* the place main() has reached
    args,           \* the parsed command line
    fs,             \* the file system
    menu,           \* what the last call of input() in select_model did
    models,         \* main: the list get_downloaded_llm_models returned
    hef_path,       \* main: the model file
    vdevice,        \* main: TRUE once the device handle is bound
    llm,            \* main: TRUE once the model handle is bound
    system_prompt,  \* interactive_chat: the active system prompt
    conversation,   \* interactive_chat: the transcript
    calls,          \* the calls made to the runtime, in order
    out,            \* the last message of the chat loop written to stdout
    exiting,        \* TRUE while a SystemExit raised by sys.exit propagates
    exit_code,      \* the exit status of the process, -1 while it runs
    read,           \* what the last call of input() in the chat loop did
    user_input,     \* interactive_chat: the stripped line read last
    n_inputs        \* the lines the chat loop has read

vars ==
    << pc, args, fs, menu, models, hef_path, vdevice, llm, system_prompt,
       conversation, calls, out, exiting, exit_code, read, user_input, n_inputs >>

\* One element of the transcript: {"role": r, "content": [{"type": "text", "text": t}]}
Turn(r, t) == [role |-> r, text |-> t]

\* A call to the runtime: the handle, the operation, the prompt passed to
\* generate_all (empty otherwise), the text it returned (empty otherwise) and
\* what it raised: "nothing", "Exception" or "KeyboardInterrupt".
Call(o, f, p, t, e) ==
    [obj |-> o, op |-> f, prompt |-> p, result |-> t, raises |-> e]

\* What a call that can fail raises.
raises_of(raised) == IF raised THEN "Exception" ELSE "nothing"

Init ==
    /\ pc = "main"
    /\ args \in [hef_path : HefPathArgs, system_prompt : SystemPromptArgs]
    /\ fs \in FileSystems
    /\ menu = [result |-> "none", line |-> <<>>]
    /\ models = <<>>
    /\ hef_path = <<>>
    /\ vdevice = FALSE
    /\ llm = FALSE
    /\ system_prompt = <<>>
    /\ conversation = <<>>
    /\ calls = <<>>
    /\ out = "none"
    /\ exiting = FALSE
    /\ exit_code = -1
    /\ read = [result |-> "none", line |-> <<>>]
    /\ user_input = <<>>
    /\ n_inputs = 0

(***************************************************************************)
(* main: finding the model                                                 *)
(***************************************************************************)
\* sys.exit(code) outside the try statement: the process ends.
sys_exit(code) ==
    /\ pc' = "exited"
    /\ exit_code' = code

\* Path.exists()
exists(p) == p \in fs.paths

\* if args.hef_path: a string is true unless empty, None is false.
hef_path_truthy == args.hef_path.given /\ args.hef_path.value # <<>>

\* Mutant of resolve_hef_path: the extension is never appended.
resolve_hef_path_as_given(value) == Path(value)

\* The path main settles on for --hef-path: the path, else the path with the
\* extension appended.
resolve_hef_path(value) ==
    IF exists(Path(value)) THEN Path(value)
    ELSE Path(value \o HAILO_FILE_EXTENSION)

MainHefPath ==
    /\ pc = "main"
    /\ hef_path_truthy
    /\ LET p == resolve_hef_path(args.hef_path.value)
       IN  IF ~exists(p)
           THEN /\ sys_exit(1)
                /\ UNCHANGED hef_path
           ELSE /\ hef_path' = p
                /\ pc' = "try"
                /\ UNCHANGED exit_code
    /\ UNCHANGED << args, fs, menu, models, vdevice, llm, system_prompt,
                    conversation, calls, out, exiting, read, user_input, n_inputs >>

\* Mutant of MainDiscover: a single model is offered in the menu as well.
MainDiscover_always_menu ==
    /\ pc = "main"
    /\ ~hef_path_truthy
    /\ \E found \in get_downloaded_llm_models(fs.dir) :
         /\ models' = found
         /\ IF found = <<>>
            THEN /\ sys_exit(1)
                 /\ UNCHANGED hef_path
            ELSE /\ pc' = "select_model"
                 /\ UNCHANGED << hef_path, exit_code >>
    /\ UNCHANGED << args, fs, menu, vdevice, llm, system_prompt,
                    conversation, calls, out, exiting, read, user_input, n_inputs >>

MainDiscover ==
    /\ pc = "main"
    /\ ~hef_path_truthy
    /\ \E found \in get_downloaded_llm_models(fs.dir) :
         /\ models' = found
         /\ IF found = <<>>
            THEN /\ sys_exit(1)
                 /\ UNCHANGED hef_path
            ELSE IF Len(found) = 1
            THEN /\ hef_path' = found[1]
                 /\ pc' = "try"
                 /\ UNCHANGED exit_code
            ELSE /\ pc' = "select_model"
                 /\ UNCHANGED << hef_path, exit_code >>
    /\ UNCHANGED << args, fs, menu, vdevice, llm, system_prompt,
                    conversation, calls, out, exiting, read, user_input, n_inputs >>

\* Mutant of select_model: the index is tested against the length only, and
\* a negative index counts from the end of the list.
select_model_no_lower_bound(line) ==
    LET choice == strip(line)
    IN  IF lower(choice) = QUIT_TOKEN
        THEN /\ sys_exit(0)
             /\ UNCHANGED hef_path
        ELSE IF int_raises(choice)
        THEN UNCHANGED << pc, hef_path, exit_code >>
        ELSE LET idx == int(choice) - 1
             IN  IF idx < Len(models) /\ 0 - idx <= Len(models)
                 THEN /\ hef_path' = models[IF idx >= 0 THEN idx + 1
                                                        ELSE Len(models) + idx + 1]
                      /\ pc' = "try"
                      /\ UNCHANGED exit_code
                 ELSE UNCHANGED << pc, hef_path, exit_code >>

\* One pass of the loop of select_model on the line `line`.
select_model(line) ==
    LET choice == strip(line)
    IN  IF lower(choice) = QUIT_TOKEN
        THEN /\ sys_exit(0)
             /\ UNCHANGED hef_path
        ELSE IF int_raises(choice)
        THEN UNCHANGED << pc, hef_path, exit_code >>
        ELSE LET idx == int(choice) - 1
             IN  IF 0 <= idx /\ idx < Len(models)
                 THEN /\ hef_path' = models[idx + 1]
                      /\ pc' = "try"
                      /\ UNCHANGED exit_code
                 ELSE UNCHANGED << pc, hef_path, exit_code >>

MainSelectModel ==
    /\ pc = "select_model"
    /\ \E line \in Choices :
         /\ menu' = [result |-> "line", line |-> line]
         /\ select_model(line)
    /\ UNCHANGED << args, fs, models, vdevice, llm, system_prompt,
                    conversation, calls, out, exiting, read, user_input, n_inputs >>

(***************************************************************************)
(* main: the try statement                                                 *)
(***************************************************************************)
\* Mutant of except_Exception: the error is logged and main goes on to return.
except_Exception_logged_only ==
    /\ exiting' = exiting
    /\ pc' = "finally"

\* except Exception: log the error and sys.exit(1); the SystemExit leaves
\* through the finally clause.
except_Exception ==
    /\ exiting' = TRUE
    /\ pc' = "finally"

MainInitDevice ==
    /\ pc = "try"
    /\ \E raised \in BOOLEAN :
         /\ calls' = Append(calls, Call("vdevice", "VDevice", <<>>, <<>>, raises_of(raised)))
         /\ IF raised
            THEN /\ except_Exception
                 /\ UNCHANGED vdevice
            ELSE /\ vdevice' = TRUE
                 /\ pc' = "load_llm"
                 /\ UNCHANGED exiting
    /\ UNCHANGED << args, fs, menu, models, hef_path, llm, system_prompt,
                    conversation, out, exit_code, read, user_input, n_inputs >>

MainLoadLLM ==
    /\ pc = "load_llm"
    /\ \E raised \in BOOLEAN :
         /\ calls' = Append(calls, Call("llm", "LLM", <<>>, <<>>, raises_of(raised)))
         /\ IF raised
            THEN /\ except_Exception
                 /\ UNCHANGED llm
            ELSE /\ llm' = TRUE
                 /\ pc' = "interactive_chat"
                 /\ UNCHANGED exiting
    /\ UNCHANGED << args, fs, menu, models, hef_path, vdevice, system_prompt,
                    conversation, out, exit_code, read, user_input, n_inputs >>

(***************************************************************************)
(* interactive_chat                                                        *)
(***************************************************************************)
\* Mutant of fresh_conversation: the system turn is appended to the transcript.
fresh_conversation_appended(p) == Append(conversation, Turn("system", p))

\* [{"role": "system", ...}] with the prompt p
fresh_conversation(p) == << Turn("system", p) >>

\* The call: the banner is written and the transcript created; a write to
\* stdout that fails raises outside the loop's try statement.
ChatEnter ==
    /\ pc = "interactive_chat"
    /\ \E raised \in BOOLEAN :
         IF raised
         THEN /\ except_Exception
              /\ UNCHANGED << system_prompt, conversation >>
         ELSE /\ system_prompt' = args.system_prompt
              /\ conversation' = fresh_conversation(args.system_prompt)
              /\ pc' = "chat"
              /\ UNCHANGED exiting
    /\ UNCHANGED << args, fs, menu, models, hef_path, vdevice, llm, calls, out,
                    exit_code, read, user_input, n_inputs >>

\* Mutant of is_quit: the comparison minds the letter case.
is_quit_case_sensitive(u) == u \in QUIT_COMMANDS

is_quit(u) == lower(u) \in QUIT_COMMANDS

is_clear(u) == lower(u) = CLEAR_COMMAND

is_system(u) == startswith(lower(u), SYSTEM_PREFIX)

\* The branch of the loop body a stripped line takes.
command(u) ==
    IF u = <<>> THEN "blank"
    ELSE IF is_quit(u) THEN "quit"
    ELSE IF is_clear(u) THEN "clear"
    ELSE IF is_system(u) THEN "system"
    ELSE "utterance"

\* Mutant of loop_except: the error is printed and the loop is left.
loop_except_break ==
    /\ out' = "error"
    /\ pc' = "finally"

\* except Exception of the loop: the error is logged and printed, the loop goes on.
loop_except ==
    /\ out' = "error"
    /\ pc' = "chat"

\* input() returns `line`: the pass strips it and binds user_input.
input_returns(line) ==
    /\ pc = "chat"
    /\ n_inputs' = n_inputs + 1
    /\ read' = [result |-> "line", line |-> line]
    /\ user_input' = strip(line)

\* input() raises: user_input keeps its binding.
input_raises(exception) ==
    /\ pc = "chat"
    /\ n_inputs' = n_inputs + 1
    /\ read' = [result |-> exception, line |-> <<>>]
    /\ UNCHANGED user_input

ChatBlank ==
    /\ n_inputs < MaxInputs
    /\ \E line \in Lines :
         /\ input_returns(line)
         /\ command(strip(line)) = "blank"
    /\ UNCHANGED << pc, args, fs, menu, models, hef_path, vdevice, llm, system_prompt,
                    conversation, calls, out, exiting, exit_code >>

\* input() raises EOFError.
ChatEndOfInput ==
    /\ n_inputs < MaxInputs
    /\ input_raises("EOFError")
    /\ loop_except
    /\ UNCHANGED << args, fs, menu, models, hef_path, vdevice, llm, system_prompt,
                    conversation, calls, exiting, exit_code >>

\* Mutant of loop_interrupted: the loop is left without the farewell.
loop_interrupted_silent ==
    /\ out' = out
    /\ pc' = "finally"

\* except KeyboardInterrupt of the loop: the farewell, and break.
loop_interrupted ==
    /\ out' = "interrupted"
    /\ pc' = "finally"

\* KeyboardInterrupt while input() waits.
ChatInterrupt ==
    /\ input_raises("KeyboardInterrupt")
    /\ loop_interrupted
    /\ UNCHANGED << args, fs, menu, models, hef_path, vdevice, llm, system_prompt,
                    conversation, calls, exiting, exit_code >>

ChatQuit ==
    /\ \E line \in Lines :
         /\ input_returns(line)
         /\ command(strip(line)) = "quit"
    /\ out' = "goodbye"
    /\ pc' = "finally"
    /\ UNCHANGED << args, fs, menu, models, hef_path, vdevice, llm, system_prompt,
                    conversation, calls, exiting, exit_code >>

\* Mutant of ChatClear: the transcript is rebuilt with the prompt of the
\* command line instead of the active one.
ChatClear_initial_prompt ==
    /\ n_inputs < MaxInputs
    /\ \E line \in Lines :
         /\ input_returns(line)
         /\ command(strip(line)) = "clear"
    /\ \E raised \in BOOLEAN :
         /\ calls' = Append(calls,
                            Call("llm", "clear_context", <<>>, <<>>, raises_of(raised)))
         /\ IF raised
            THEN /\ loop_except
                 /\ UNCHANGED conversation
            ELSE /\ conversation' = fresh_conversation(args.system_prompt)
                 /\ out' = "cleared"
                 /\ UNCHANGED pc
    /\ UNCHANGED << args, fs, menu, models, hef_path, vdevice, llm, system_prompt,
                    exiting, exit_code >>

ChatClear ==
    /\ n_inputs < MaxInputs
    /\ \E line \in Lines :
         /\ input_returns(line)
         /\ command(strip(line)) = "clear"
    /\ \E raised \in BOOLEAN :
         /\ calls' = Append(calls,
                            Call("llm", "clear_context", <<>>, <<>>, raises_of(raised)))
         /\ IF raised
            THEN /\ loop_except
                 /\ UNCHANGED conversation
            ELSE /\ conversation' = fresh_conversation(system_prompt)
                 /\ out' = "cleared"
                 /\ UNCHANGED pc
    /\ UNCHANGED << args, fs, menu, models, hef_path, vdevice, llm, system_prompt,
                    exiting, exit_code >>

ChatSystem ==
    /\ n_inputs < MaxInputs
    /\ \E line \in Lines :
         /\ input_returns(line)
         /\ command(strip(line)) = "system"
         /\ LET new_system == strip(slice_from(strip(line), Len(SYSTEM_PREFIX)))
            IN  IF new_system # <<>>
                THEN /\ system_prompt' = new_system
                     /\ \E raised \in BOOLEAN :
                          /\ calls' = Append(calls,
                                             Call("llm", "clear_context", <<>>, <<>>,
                                                  raises_of(raised)))
                          /\ IF raised
                             THEN /\ loop_except
                                  /\ UNCHANGED conversation
                             ELSE /\ conversation' = fresh_conversation(new_system)
                                  /\ out' = "updated"
                                  /\ UNCHANGED pc
                ELSE /\ out' = "hint"
                     /\ UNCHANGED << pc, system_prompt, conversation, calls >>
    /\ UNCHANGED << args, fs, menu, models, hef_path, vdevice, llm, exiting, exit_code >>

\* Mutant of clean_response: the text is cut at the last marker (rsplit).
clean_response_at_last_marker(response) ==
    IF occurrences(response, METADATA_MARKER) = {} THEN response
    ELSE LET i == CHOOSE j \in occurrences(response, METADATA_MARKER) :
                      \A k \in occurrences(response, METADATA_MARKER) : k <= j
         IN  SubSeq(response, 1, i - 1)

\* response.split(". [{'type'")[0]
clean_response(response) == split_first(response, METADATA_MARKER)

\* Mutant of generation_returns: the answer is appended to the transcript as
\* it was before the line was read.
generation_returns_answer_only(asked, response) ==
    /\ calls' = Append(calls, Call("llm", "generate_all", asked, response, "nothing"))
    /\ conversation' = Append(conversation, Turn("assistant", clean_response(response)))
    /\ out' = "response"
    /\ UNCHANGED pc

\* generate_all returned `response` for the transcript `asked`.
generation_returns(asked, response) ==
    /\ calls' = Append(calls, Call("llm", "generate_all", asked, response, "nothing"))
    /\ conversation' = Append(asked, Turn("assistant", clean_response(response)))
    /\ out' = "response"
    /\ UNCHANGED pc

\* Mutant of generation_raises: the user turn just appended is taken back.
generation_raises_rolled_back(asked) ==
    /\ calls' = Append(calls, Call("llm", "generate_all", asked, <<>>, "Exception"))
    /\ conversation' = conversation
    /\ loop_except

\* generate_all raised an Exception for the transcript `asked`.
generation_raises(asked) ==
    /\ calls' = Append(calls, Call("llm", "generate_all", asked, <<>>, "Exception"))
    /\ conversation' = asked
    /\ loop_except

\* KeyboardInterrupt while generate_all runs on the transcript `asked`.
generation_interrupted(asked) ==
    /\ calls' = Append(calls,
                       Call("llm", "generate_all", asked, <<>>, "KeyboardInterrupt"))
    /\ conversation' = asked
    /\ loop_interrupted

ChatUtterance ==
    /\ n_inputs < MaxInputs
    /\ \E line \in Lines :
         /\ input_returns(line)
         /\ command(strip(line)) = "utterance"
         /\ LET asked == Append(conversation, Turn("user", strip(line)))
            IN  \/ \E response \in Responses : generation_returns(asked, response)
                \/ generation_raises(asked)
                \/ generation_interrupted(asked)
    /\ UNCHANGED << args, fs, menu, models, hef_path, vdevice, llm, system_prompt,
                    exiting, exit_code >>

(***************************************************************************)
(* main: the finally clause                                                *)
(***************************************************************************)
\* Mutant of FinallyLLM: release is called before clear_context.
FinallyLLM_release_first ==
    /\ pc = "finally"
    /\ pc' = "finally_vdevice"
    /\ IF llm
       THEN \E release_raised \in BOOLEAN, clear_raised \in BOOLEAN :
              calls' =
                IF release_raised
                THEN Append(calls, Call("llm", "release", <<>>, <<>>, "Exception"))
                ELSE calls \o << Call("llm", "release", <<>>, <<>>, "nothing"),
                                 Call("llm", "clear_context", <<>>, <<>>,
                                      raises_of(clear_raised)) >>
       ELSE UNCHANGED calls
    /\ UNCHANGED << args, fs, menu, models, hef_path, vdevice, llm, system_prompt,
                    conversation, out, exiting, exit_code, read, user_input, n_inputs >>

\* if llm: try: llm.clear_context(); llm.release()  except Exception: warn
FinallyLLM ==
    /\ pc = "finally"
    /\ pc' = "finally_vdevice"
    /\ IF llm
       THEN \E clear_raised \in BOOLEAN, release_raised \in BOOLEAN :
              calls' =
                IF clear_raised
                THEN Append(calls, Call("llm", "clear_context", <<>>, <<>>, "Exception"))
                ELSE calls \o << Call("llm", "clear_context", <<>>, <<>>, "nothing"),
                                 Call("llm", "release", <<>>, <<>>, raises_of(release_raised)) >>
       ELSE UNCHANGED calls
    /\ UNCHANGED << args, fs, menu, models, hef_path, vdevice, llm, system_prompt,
                    conversation, out, exiting, exit_code, read, user_input, n_inputs >>

\* Mutant of FinallyVDevice: vdevice.release() outside a try statement, its
\* exception ends the process with a traceback and status 1.
FinallyVDevice_unguarded ==
    /\ pc = "finally_vdevice"
    /\ pc' = "exited"
    /\ IF vdevice
       THEN \E raised \in BOOLEAN :
              /\ calls' = Append(calls,
                                 Call("vdevice", "release", <<>>, <<>>, raises_of(raised)))
              /\ exit_code' = IF exiting \/ raised THEN 1 ELSE 0
       ELSE /\ UNCHANGED calls
            /\ exit_code' = IF exiting THEN 1 ELSE 0
    /\ UNCHANGED << args, fs, menu, models, hef_path, vdevice, llm, system_prompt,
                    conversation, out, exiting, read, user_input, n_inputs >>

\* if vdevice: try: vdevice.release()  except Exception: warn; then main
\* returns, or the SystemExit of the except clause ends the process.
FinallyVDevice ==
    /\ pc = "finally_vdevice"
    /\ IF vdevice
       THEN \E raised \in BOOLEAN :
              calls' = Append(calls, Call("vdevice", "release", <<>>, <<>>, raises_of(raised)))
       ELSE UNCHANGED calls
    /\ pc' = "exited"
    /\ exit_code' = IF exiting THEN 1 ELSE 0
    /\ UNCHANGED << args, fs, menu, models, hef_path, vdevice, llm, system_prompt,
                    conversation, out, exiting, read, user_input, n_inputs >>

Next ==
    \/ MainHefPath
    \/ MainDiscover
    \/ MainSelectModel
    \/ MainInitDevice
    \/ MainLoadLLM
    \/ ChatEnter
    \/ ChatBlank
    \/ ChatEndOfInput
    \/ ChatInterrupt
    \/ ChatQuit
    \/ ChatClear
    \/ ChatSystem
    \/ ChatUtterance
    \/ FinallyLLM
    \/ FinallyVDevice

Spec == Init /\ [][Next]_vars

(***************************************************************************)
(* The locator on its own                                                  *)
(***************************************************************************)
QwenLower == << "q","w","e","n",".","h","e","f" >>

Zchat == << "Z","c","h","a","t",".","h","e","f" >>

\* The file names a models directory is filled from: a marker in capitals, the
\* same stem in small letters, a capital that sorts last once lowered, a name
\* without marker, a marker without the extension.
LocatorFiles == { Qwen, QwenLower, Llama, Zchat, Yolo, PhiTxt }

\* The models directories: missing, or holding any of the files.
LocatorDirs ==
    { [exists |-> FALSE, files |-> {}] }
      \cup { [exists |-> TRUE, files |-> S] : S \in SUBSET LocatorFiles }

\* main called without --hef-path on each of the models directories.
InitLocator ==
    /\ pc = "main"
    /\ args \in [hef_path : { NoArg }, system_prompt : SystemPromptArgs]
    /\ fs \in { [paths |-> { << "." >> }, dir |-> d] : d \in LocatorDirs }
    /\ menu = [result |-> "none", line |-> <<>>]
    /\ models = <<>>
    /\ hef_path = <<>>
    /\ vdevice = FALSE
    /\ llm = FALSE
    /\ system_prompt = <<>>
    /\ conversation = <<>>
    /\ calls = <<>>
    /\ out = "none"
    /\ exiting = FALSE
    /\ exit_code = -1
    /\ read = [result |-> "none", line |-> <<>>]
    /\ user_input = <<>>
    /\ n_inputs = 0

\* models = get_downloaded_llm_models() and what main does with the list.
NextLocator == MainDiscover

SpecLocator == InitLocator /\ [][NextLocator]_vars

(***************************************************************************)
(* Properties                                                              *)
(***************************************************************************)
roles(transcript) == [i \in 1..Len(transcript) |-> transcript[i].role]

\* The positions of the calls of operation f on handle o.
calls_of(o, f) == { i \in 1..Len(calls) : calls[i].obj = o /\ calls[i].op = f }

\* This step made a call of input() in the chat loop and it returned a line.
line_read == pc = "chat" /\ n_inputs' = n_inputs + 1 /\ read'.result = "line"

\* The calls this step added to the log.
new_calls == { i \in 1..Len(calls') : i > Len(calls) }

\* C1: in every state of the chat loop the transcript holds exactly one
\* system turn, and it is the first element.
C1_OneSystemTurnFirst ==
    (pc = "chat" \/ conversation # <<>>) =>
        /\ Len(conversation) >= 1
        /\ conversation[1].role = "system"
        /\ \A i \in 2..Len(conversation) : conversation[i].role # "system"

\* The prompt was changed by /system and an exchange followed it.
C1_Witness ==
    /\ pc = "chat"
    /\ system_prompt # args.system_prompt
    /\ roles(conversation) = << "system", "user", "assistant" >>

\* /system in any letter case followed by whitespace and nothing else
bare_system_line(line) ==
    /\ Len(line) > Len(SYSTEM_PREFIX) - 1
    /\ lower(SubSeq(line, 1, Len(SYSTEM_PREFIX) - 1))
         = SubSeq(SYSTEM_PREFIX, 1, Len(SYSTEM_PREFIX) - 1)
    /\ \A i \in Len(SYSTEM_PREFIX)..Len(line) : isspace(line[i])

\* C2: a line of /system followed only by whitespace changes neither the
\* active prompt nor the transcript, calls neither clear_context nor
\* generate_all, prints the usage hint and leaves the loop awaiting input.
C2_BareSystemChangesNothing ==
    [][ (line_read /\ bare_system_line(read'.line)) =>
            /\ system_prompt' = system_prompt
            /\ conversation' = conversation
            /\ calls' = calls
            /\ out' = "hint"
            /\ pc' = "chat" ]_vars

\* C3: when the process has ended, each handle that was acquired has had
\* release called on it exactly once.
C3_EveryHandleReleasedOnce ==
    pc = "exited" =>
        /\ llm => Cardinality(calls_of("llm", "release")) = 1
        /\ vdevice => Cardinality(calls_of("vdevice", "release")) = 1

\* C4: with both handles acquired, teardown calls clear_context and then
\* release on the model handle, and after them release on the device handle.
C4_TeardownOrder ==
    (pc = "exited" /\ llm /\ vdevice) =>
        /\ Len(calls) >= 3
        /\ LET n == Len(calls)
           IN  /\ calls[n - 2].obj = "llm" /\ calls[n - 2].op = "clear_context"
               /\ calls[n - 1].obj = "llm" /\ calls[n - 1].op = "release"
               /\ calls[n].obj = "vdevice" /\ calls[n].op = "release"

\* C5: when generate_all raises an exception for an utterance, the transcript
\* afterwards is the old one with the user turn appended, no assistant turn
\* is added, and the loop goes on awaiting input with the process running.
C5_FailedGenerationKeepsUserTurn ==
    [][ (/\ pc = "chat"
         /\ \E i \in new_calls : /\ calls'[i].op = "generate_all"
                                 /\ calls'[i].raises = "Exception") =>
            /\ read'.result = "line"
            /\ user_input' # <<>>
            /\ conversation' = Append(conversation, Turn("user", user_input'))
            /\ pc' = "chat"
            /\ exit_code' = -1
            /\ ~exiting'
            /\ << system_prompt', llm', vdevice' >> = << system_prompt, llm, vdevice >>
      ]_vars

\* An utterance failed and the next utterance was answered.
C5_Witness ==
    /\ pc = "chat"
    /\ roles(conversation) = << "system", "user", "user", "assistant" >>
    /\ \E i \in calls_of("llm", "generate_all") : calls[i].raises = "Exception"

\* VDevice(params) or LLM(vdevice, hef_path) raised.
acquisition_raised ==
    \E i \in calls_of("vdevice", "VDevice") \cup calls_of("llm", "LLM") :
        calls[i].raises = "Exception"

\* C6: when acquiring the device or the model raises, the chat loop is never
\* entered, nothing is called on a handle that was not acquired, a device
\* handle that was acquired is released, and the process exits with status 1.
C6_BootstrapFailure ==
    acquisition_raised =>
        /\ pc \in {"finally", "finally_vdevice", "exited"}
        /\ ~llm
        /\ conversation = <<>> /\ n_inputs = 0 /\ read.result = "none"
        /\ \A i \in 1..Len(calls) : calls[i].obj = "llm" => calls[i].op = "LLM"
        /\ ~vdevice => calls_of("vdevice", "release") = {}
        /\ pc = "exited" =>
             /\ exit_code = 1
             /\ vdevice => Cardinality(calls_of("vdevice", "release")) = 1
        /\ pc # "exited" => exit_code = -1

\* Loading the model raised after the device was acquired, and the process
\* has ended.
C6_Witness ==
    /\ pc = "exited"
    /\ vdevice
    /\ \E i \in calls_of("llm", "LLM") : calls[i].raises = "Exception"
    /\ calls[Len(calls)].op = "release"

\* --hef-path names a file that exists, as given or with the extension appended.
hef_path_resolves ==
    \/ exists(Path(args.hef_path.value))
    \/ exists(Path(args.hef_path.value \o HAILO_FILE_EXTENSION))

\* The process ended with status 1 before acquiring a handle.
precondition_exit == pc = "exited" /\ exit_code = 1 /\ calls = <<>>

\* The lists get_downloaded_llm_models can return, per file system.
models_found == [f \in FileSystems |-> get_downloaded_llm_models(f.dir)]

\* The path --hef-path stands for: as given when that exists, else with the
\* extension appended.
expected_hef_path ==
    IF exists(Path(args.hef_path.value)) THEN Path(args.hef_path.value)
    ELSE Path(args.hef_path.value \o HAILO_FILE_EXTENSION)

\* C7 as stated: without --hef-path and with no model found, and with a
\* --hef-path that exists neither as given nor with the extension appended,
\* the process exits with status 1 before a handle is acquired; a --hef-path
\* that resolves is the model file, without discovery and without the menu.
C7_PreconditionFailures ==
    pc # "main" =>
        /\ (~args.hef_path.given /\ models_found[fs] = { <<>> })
             => precondition_exit
        /\ (args.hef_path.given /\ ~hef_path_resolves) => precondition_exit
        /\ (args.hef_path.given /\ hef_path_resolves) =>
             /\ models = <<>>
             /\ pc # "select_model"
             /\ hef_path = expected_hef_path

\* C7 amended: as C7, with the last part for a --hef-path that is not the
\* empty string: a non-empty --hef-path that resolves is the model file,
\* without discovery and without the menu.
C7_PreconditionFailuresNonEmpty ==
    pc # "main" =>
        /\ (~args.hef_path.given /\ models_found[fs] = { <<>> })
             => precondition_exit
        /\ (args.hef_path.given /\ ~hef_path_resolves) => precondition_exit
        /\ (args.hef_path.given /\ args.hef_path.value # <<>> /\ hef_path_resolves) =>
             /\ models = <<>>
             /\ pc # "select_model"
             /\ hef_path = expected_hef_path

\* A --hef-path without the extension was resolved by appending it, and the
\* chat loop runs on that model with no discovery made.
C7_Witness ==
    /\ pc = "chat"
    /\ args.hef_path.given
    /\ ~exists(Path(args.hef_path.value))
    /\ hef_path = args.hef_path.value \o HAILO_FILE_EXTENSION
    /\ models = <<>>

\* C8: the exit status is decided before teardown: 0 after a quit command, 1
\* after a failed acquisition, whatever the calls of teardown raise.
C8_TeardownKeepsExitStatus ==
    pc = "exited" =>
        /\ out = "goodbye" => exit_code = 0
        /\ acquisition_raised => exit_code = 1

\* A quit command ended the loop, and release raised on both handles.
C8_Witness ==
    /\ pc = "exited"
    /\ out = "goodbye"
    /\ \E i \in calls_of("llm", "release") : calls[i].raises = "Exception"
    /\ \E i \in calls_of("vdevice", "release") : calls[i].raises = "Exception"

Hello == << "h","e","l","l","o" >>

HiThere == << "h","i"," ","t","h","e","r","e" >>

\* C9: a line that is /quit or /exit in any letter case ends the loop with no
\* call to the runtime and the transcript untouched; after it teardown runs
\* (its last call releases the device) and the process exits with status 0.
C9_QuitEndsCleanly ==
    /\ [][ (line_read /\ lower(user_input') \in QUIT_COMMANDS) =>
               /\ calls' = calls
               /\ conversation' = conversation
               /\ system_prompt' = system_prompt
               /\ pc' = "finally"
               /\ ~exiting' ]_vars
    /\ [](pc = "exited" /\ out = "goodbye" =>
               /\ exit_code = 0
               /\ calls[Len(calls)].obj = "vdevice"
               /\ calls[Len(calls)].op = "release")

\* The run of "hello" answered "hi there", then /clear, then /quit.
C9_Witness ==
    /\ pc = "exited"
    /\ exit_code = 0
    /\ n_inputs = 3
    /\ user_input = << "/","q","u","i","t" >>
    /\ conversation = << Turn("system", args.system_prompt) >>
    /\ \E i \in calls_of("llm", "generate_all") :
         /\ calls[i].prompt
              = << Turn("system", args.system_prompt), Turn("user", Hello) >>
         /\ calls[i].result = HiThere
         /\ calls[i + 1].op = "clear_context"
         /\ calls[i + 1].raises = "nothing"
         /\ calls[i + 2].op = "clear_context"

\* t is raw without its leading and trailing whitespace.
is_trimmed(t, raw) ==
    /\ t # <<>> => ~isspace(t[1]) /\ ~isspace(t[Len(t)])
    /\ \E i \in 0..Len(raw) :
         /\ i + Len(t) <= Len(raw)
         /\ SubSeq(raw, i + 1, i + Len(t)) = t
         /\ \A k \in 1..Len(raw) : (k <= i \/ k > i + Len(t)) => isspace(raw[k])

\* The marker stands in r at position i.
marker_at(r, i) ==
    /\ i >= 1
    /\ i + Len(METADATA_MARKER) - 1 <= Len(r)
    /\ SubSeq(r, i, i + Len(METADATA_MARKER) - 1) = METADATA_MARKER

\* t is r cut before its first marker, all of r when it has none.
is_cut_at_marker(t, r) ==
    IF \E i \in 1..Len(r) : marker_at(r, i)
    THEN /\ Len(t) < Len(r)
         /\ t = SubSeq(r, 1, Len(t))
         /\ marker_at(r, Len(t) + 1)
         /\ \A i \in 1..Len(t) : ~marker_at(r, i)
    ELSE t = r

\* C10: a pass in which generate_all returns makes that one call and no other,
\* with the transcript extended by the user turn of the trimmed line, and
\* leaves the transcript two turns longer: that user turn, and an assistant
\* turn with the returned text cut before its first metadata marker.
C10_SuccessfulExchange ==
    [][ (/\ pc = "chat"
         /\ \E i \in new_calls : /\ calls'[i].op = "generate_all"
                                 /\ calls'[i].raises = "nothing") =>
            /\ read'.result = "line"
            /\ Len(calls') = Len(calls) + 1
            /\ LET call == calls'[Len(calls')]
                   last == Len(conversation')
               IN  /\ last = Len(conversation) + 2
                   /\ SubSeq(conversation', 1, last - 2) = conversation
                   /\ conversation'[last - 1].role = "user"
                   /\ is_trimmed(conversation'[last - 1].text, read'.line)
                   /\ conversation'[last].role = "assistant"
                   /\ is_cut_at_marker(conversation'[last].text, call.result)
                   /\ call.prompt = SubSeq(conversation', 1, last - 1)
            /\ pc' = "chat"
      ]_vars

\* An answer that carried the marker twice was cut to the text before the first.
C10_Witness ==
    /\ pc = "chat"
    /\ Len(conversation) = 3
    /\ conversation[2] = Turn("user", Hello)
    /\ conversation[3] = Turn("assistant", << "a" >>)
    /\ Cardinality(occurrences(calls[Len(calls)].result, METADATA_MARKER)) = 2

\* C11 as stated: a line that is /clear in any letter case calls
\* clear_context exactly once and leaves the transcript as the single system
\* turn with the active prompt, the prompt unchanged and the loop awaiting input.
C11_ClearResetsTranscript ==
    [][ (line_read /\ lower(user_input') = CLEAR_COMMAND) =>
            /\ Len(calls') = Len(calls) + 1
            /\ calls'[Len(calls')].obj = "llm"
            /\ calls'[Len(calls')].op = "clear_context"
            /\ conversation' = << Turn("system", system_prompt) >>
            /\ system_prompt' = system_prompt
            /\ pc' = "chat" ]_vars

\* C11 amended: a line that is /clear in any letter case calls clear_context
\* exactly once; when the call returns the transcript becomes the single system
\* turn with the active prompt, when it raises the transcript is left as it
\* was and the error is printed; either way the prompt is unchanged and the
\* loop awaits input.
C11_ClearResetsTranscriptIfCleared ==
    [][ (line_read /\ lower(user_input') = CLEAR_COMMAND) =>
            /\ Len(calls') = Len(calls) + 1
            /\ calls'[Len(calls')].obj = "llm"
            /\ calls'[Len(calls')].op = "clear_context"
            /\ IF calls'[Len(calls')].raises = "nothing"
               THEN /\ conversation' = << Turn("system", system_prompt) >>
                    /\ out' = "cleared"
               ELSE /\ conversation' = conversation
                    /\ out' = "error"
            /\ system_prompt' = system_prompt
            /\ pc' = "chat" ]_vars

\* /clear was read after /system had changed the prompt, and the transcript
\* is the single system turn with the changed prompt.
C11_Witness ==
    /\ pc = "chat"
    /\ out = "cleared"
    /\ lower(user_input) = CLEAR_COMMAND
    /\ system_prompt # args.system_prompt
    /\ conversation = << Turn("system", system_prompt) >>
    /\ calls[Len(calls)].op = "clear_context"
    /\ calls[Len(calls)].raises = "nothing"

\* C12: no call is made on the model handle after release was called on it,
\* and no call at all (so none on either handle) after release was called on
\* the device handle.
C12_NoUseAfterRelease ==
    /\ \A i \in calls_of("llm", "release") :
         \A j \in (i + 1)..Len(calls) : calls[j].obj # "llm"
    /\ \A i \in calls_of("vdevice", "release") : i = Len(calls)

\* The process ended after an exchange, with release called on both handles.
C12_Witness ==
    /\ pc = "exited"
    /\ calls_of("llm", "generate_all") # {}
    /\ calls_of("llm", "release") # {}
    /\ calls_of("vdevice", "release") # {}

\* C13: a KeyboardInterrupt raised while input() waits ends the loop with the
\* farewell, the transcript and the prompt untouched and no call to the
\* runtime made by the loop; teardown then runs (its last call releases the
\* device) and the process exits with status 0.
C13_InterruptAtPrompt ==
    /\ [][ (pc = "chat" /\ n_inputs' = n_inputs + 1
                        /\ read'.result = "KeyboardInterrupt") =>
               /\ conversation' = conversation
               /\ system_prompt' = system_prompt
               /\ calls' = calls
               /\ out' = "interrupted"
               /\ pc' = "finally"
               /\ ~exiting' ]_vars
    /\ [](pc = "exited" /\ read.result = "KeyboardInterrupt" =>
               /\ out = "interrupted"
               /\ exit_code = 0
               /\ calls[Len(calls)].obj = "vdevice"
               /\ calls[Len(calls)].op = "release")

\* The prompt was interrupted after one exchange, and the process has ended.
C13_Witness ==
    /\ pc = "exited"
    /\ read.result = "KeyboardInterrupt"
    /\ exit_code = 0
    /\ roles(conversation) = << "system", "user", "assistant" >>
    /\ calls_of("llm", "release") # {}

\* C14: at the menu over n > 1 models, a line that is the quit token q in
\* either letter case ends the process with status 0, no model chosen and no
\* handle acquired; a line that denotes an integer k in 1..n chooses the k-th
\* model; every other line (not a number, or a number out of range) chooses
\* nothing and the menu prompts again.
C14_MenuChoice ==
    [][ pc = "select_model" =>
            /\ Len(models) > 1
            /\ menu'.result = "line"
            /\ LET choice == strip(menu'.line)
               IN  IF lower(choice) = << "q" >>
                   THEN /\ pc' = "exited"
                        /\ exit_code' = 0
                        /\ hef_path' = <<>>
                        /\ calls' = <<>>
                        /\ ~vdevice' /\ ~llm'
                   ELSE IF ~int_raises(choice) /\ int(choice) \in 1..Len(models)
                   THEN /\ hef_path' = models[int(choice)]
                        /\ pc' = "try"
                        /\ exit_code' = -1
                   ELSE /\ pc' = "select_model"
                        /\ hef_path' = <<>>
                        /\ exit_code' = -1
                        /\ calls' = <<>> ]_vars

\* The line " 2 " chose the second of two models, and the chat loop runs on it.
C14_Witness ==
    /\ pc = "chat"
    /\ Len(models) = 2
    /\ menu = [result |-> "line", line |-> << " ","2"," " >>]
    /\ hef_path = models[2]
    /\ hef_path # models[1]

\* C15: when discovery finds exactly one model, select_model reads no line
\* and that model is the model file.
C15_SingleModelNoPrompt ==
    Len(models) = 1 =>
        /\ menu.result = "none"
        /\ pc # "select_model"
        /\ hef_path = models[1]

\* Discovery found one model among two files, and the chat loop runs on it
\* with no line read at the menu.
C15_Witness ==
    /\ pc = "chat"
    /\ Len(models) = 1
    /\ Cardinality(fs.dir.files) = 2
    /\ menu.result = "none"
    /\ hef_path = models[1]

\* The file has the model extension and its lowered stem holds a marker.
is_llm_model_file(f) ==
    /\ Len(f) >= Len(HAILO_FILE_EXTENSION)
    /\ SubSeq(f, Len(f) - Len(HAILO_FILE_EXTENSION) + 1, Len(f)) = HAILO_FILE_EXTENSION
    /\ \E marker \in llm_patterns :
         \E i \in 1..Len(f) :
            /\ i + Len(marker) - 1 <= Len(stem(f))
            /\ lower(SubSeq(stem(f), i, i + Len(marker) - 1)) = marker

\* C16: the list get_downloaded_llm_models returns holds exactly the files of
\* the models directory that have the model extension and whose lowered stem
\* holds a marker, each once, in ascending order of the lowered stem; it is
\* empty when the directory is missing or holds no such file.
C16_LocatorResult ==
    (pc # "main" /\ ~hef_path_truthy) =>
        IF ~fs.dir.exists
        THEN models = <<>>
        ELSE /\ { models[i] : i \in 1..Len(models) }
                  = { f \in fs.dir.files : is_llm_model_file(f) }
             /\ \A i \in 1..Len(models) : \A j \in 1..Len(models) :
                  models[i] = models[j] => i = j
             /\ \A i \in 1..(Len(models) - 1) :
                  ~str_less(lower(stem(models[i + 1])), lower(stem(models[i])))

\* The directory held all six files: the four models are listed, the two
\* stems that differ in letter case only next to each other, Zchat last.
C16_Witness ==
    /\ pc = "select_model"
    /\ fs.dir.files = LocatorFiles
    /\ Len(models) = 4
    /\ models[1] = Llama
    /\ { models[2], models[3] } = { Qwen, QwenLower }
    /\ models[4] = Zchat

\* The stripped line is /system in any letter case, a space, and a text that
\* is not empty.
system_line_with_text(u) ==
    /\ Len(u) > Len(SYSTEM_PREFIX)
    /\ lower(SubSeq(u, 1, Len(SYSTEM_PREFIX))) = SYSTEM_PREFIX

\* C17: a line /system <text> with a text that is not empty makes the trimmed
\* text the active prompt, calls clear_context exactly once and nothing else,
\* and leaves the transcript as the single system turn with the new text.
C17_SystemReplacesPrompt ==
    [][ (line_read /\ system_line_with_text(user_input')) =>
            /\ is_trimmed(system_prompt',
                          SubSeq(user_input', Len(SYSTEM_PREFIX) + 1, Len(user_input')))
            /\ Len(calls') = Len(calls) + 1
            /\ calls'[Len(calls')].obj = "llm"
            /\ calls'[Len(calls')].op = "clear_context"
            /\ conversation' = << Turn("system", system_prompt') >>
            /\ pc' = "chat" ]_vars

\* C18: in every state of the chat loop the text of the system turn of the
\* transcript is the active system prompt.
C18_SystemTurnIsActivePrompt ==
    pc = "chat" => conversation[1].text = system_prompt

\* C19: the chat loop is left only by a quit command or a KeyboardInterrupt,
\* and then without an error; a pass in which input() raises EOFError or a
\* call on the model handle raises an Exception prints the error and leaves
\* the loop awaiting input with the exit status undecided; a process that
\* entered the chat loop ends with status 0.
C19_LoopEndsByQuitOrInterrupt ==
    /\ [][ (pc = "chat" /\ pc' # "chat") =>
               /\ pc' = "finally"
               /\ ~exiting'
               /\ \/ line_read /\ lower(user_input') \in QUIT_COMMANDS
                  \/ n_inputs' = n_inputs + 1 /\ read'.result = "KeyboardInterrupt"
                  \/ \E i \in new_calls : calls'[i].raises = "KeyboardInterrupt" ]_vars
    /\ [][ (/\ pc = "chat"
            /\ \/ n_inputs' = n_inputs + 1 /\ read'.result = "EOFError"
               \/ \E i \in new_calls : calls'[i].raises = "Exception") =>
               /\ pc' = "chat"
               /\ out' = "error"
               /\ ~exiting'
               /\ exit_code' = -1 ]_vars
    /\ [](pc = "exited" /\ conversation # <<>> => exit_code = 0)

\* generate_all raised on the first line, input() raised EOFError at the
\* second prompt, and the loop awaits input.
C19_Witness ==
    /\ pc = "chat"
    /\ exit_code = -1
    /\ out = "error"
    /\ n_inputs = 2
    /\ read.result = "EOFError"
    /\ calls[Len(calls)].op = "generate_all"
    /\ calls[Len(calls)].raises = "Exception"

\* C20: in the transcript each assistant turn comes right after a user turn,
\* there are no more assistant turns than user turns, and two user turns stand
\* next to each other only when generate_all was called on the transcript up
\* to the first of them and did not return.
C20_TurnsAlternate ==
    LET r == roles(conversation)
    IN  /\ \A i \in 1..Len(r) : r[i] = "assistant" => i > 1 /\ r[i - 1] = "user"
        /\ Cardinality({ i \in 1..Len(r) : r[i] = "assistant" })
             <= Cardinality({ i \in 1..Len(r) : r[i] = "user" })
        /\ \A i \in 1..(Len(r) - 1) :
             (r[i] = "user" /\ r[i + 1] = "user") =>
                \E c \in calls_of("llm", "generate_all") :
                   /\ calls[c].prompt = SubSeq(conversation, 1, i)
                   /\ calls[c].raises # "nothing"

\* generate_all raised on two lines in a row: two user turns stand next to
\* each other and no assistant turn follows.
C20_Witness ==
    /\ pc = "chat"
    /\ roles(conversation) = << "system", "user", "user" >>
    /\ Cardinality({ i \in calls_of("llm", "generate_all") :
                        calls[i].raises = "Exception" }) = 2

====
